---- MODULE Spec2Model ----
(***************************************************************************)
(* Model of the aviation-logbook PDF generator (LogbookPDFGenerator) of    *)
(* pilots-logbook: the pagination loop of generate, the totals             *)
(* accumulator, the two page engines and the formatters.                   *)
(*                                                                         *)
(* Hours are counted in tenths of an hour (15 is 1.5 h), so that           *)
(* toFixed(1) is an exact conversion to a "d.d" string.  A missing numeric *)
(* field is Undefined, a null one is Null.  Strings are TLA+ strings; a    *)
(* missing string field is "", which JavaScript treats like null in every  *)
(* test the generator makes (!s, s || '').                                 *)
(***************************************************************************)
EXTENDS Integers, Sequences, FiniteSets, TLC

VARIABLES
    customFields,   \* this.customFields, set by the constructor
    flights,        \* the argument of generate, when it is an array
    flightsIsNull,  \* TRUE when generate is called with null, not an array
    pc,             \* position inside generate
    doc,            \* the pages added to the PDFDocument, in order
    totalSpreads,   \* const totalSpreads
    spreadIndex,    \* loop variable of generate
    runningTotals,  \* let runningTotals
    totalsCalls,    \* number of initializeTotals/calculateTotals calls so far
    foldPos,        \* chunked fold: flights folded so far
    foldTotals,     \* chunked fold: result of the last calculateTotals call
    fmtIn,          \* formatter harness: the input value
    fmtOut,         \* formatter harness: the results, once computed
    txtIn,          \* text harness: a date string, a text and a maximum length
    txtOut          \* text harness: the results, once computed

vars == <<customFields, flights, flightsIsNull, pc, doc, totalSpreads, spreadIndex,
          runningTotals, totalsCalls, foldPos, foldTotals, fmtIn, fmtOut,
          txtIn, txtOut>>

genVars == <<pc, doc, totalSpreads, spreadIndex, runningTotals, totalsCalls>>

(***************************************************************************)
(* Bounds of the model.                                                    *)
(***************************************************************************)
MaxFlights == 49
MaxFmtHours == 60

(***************************************************************************)
(* JavaScript values.                                                      *)
(***************************************************************************)
Undefined == -1
Null == -2

Falsy(v) == v = Undefined \/ v = Null \/ v = 0

\* x || 0
\* Mutant of OrZero: only undefined is replaced by 0, null is added as it is.
OrZeroUndefinedOnly(v) == IF v = Undefined THEN 0 ELSE v

OrZero(v) == IF Falsy(v) THEN 0 ELSE v

Min(a, b) == IF a <= b THEN a ELSE b
Max(a, b) == IF a >= b THEN a ELSE b

\* String.prototype.substring(a, b): arguments clamped to 0..length, swapped
\* when a > b.
Substring(s, a, b) ==
    LET ca == Min(Max(a, 0), Len(s))
        cb == Min(Max(b, 0), Len(s))
        lo == Min(ca, cb)
        hi == Max(ca, cb)
    IN  SubSeq(s, lo + 1, hi)

\* String.prototype.split(sep) for a one-character separator: the segments
\* between the separators, in order (at least one segment).
RECURSIVE SplitFrom(_, _, _, _)
SplitFrom(s, sep, i, start) ==
    IF i > Len(s) THEN <<SubSeq(s, start, Len(s))>>
    ELSE IF SubSeq(s, i, i) = sep
         THEN <<SubSeq(s, start, i - 1)>> \o SplitFrom(s, sep, i + 1, i + 1)
         ELSE SplitFrom(s, sep, i + 1, start)

Split(s, sep) == SplitFrom(s, sep, 1, 1)

DigitValue(c) ==
    CASE c = "0" -> 0 [] c = "1" -> 1 [] c = "2" -> 2 [] c = "3" -> 3
      [] c = "4" -> 4 [] c = "5" -> 5 [] c = "6" -> 6 [] c = "7" -> 7
      [] c = "8" -> 8 [] c = "9" -> 9 [] OTHER -> Undefined

NaN == -3

\* parseInt(s): the leading decimal digits of s, NaN when there are none
\* (also for undefined).
RECURSIVE ParseDigits(_, _, _)
ParseDigits(s, i, acc) ==
    IF i > Len(s) \/ DigitValue(SubSeq(s, i, i)) = Undefined THEN acc
    ELSE ParseDigits(s, i + 1, 10 * acc + DigitValue(SubSeq(s, i, i)))

ParseInt(s) ==
    IF s = "undefined" \/ Len(s) = 0 \/ DigitValue(SubSeq(s, 1, 1)) = Undefined
    THEN NaN
    ELSE ParseDigits(s, 1, 0)

\* Array element read a[i] with a zero-based index: "undefined" when out of
\* range (as a template literal prints it).
ElementOrUndefined(a, i) ==
    IF i >= 0 /\ i < Len(a) THEN a[i + 1] ELSE "undefined"

(***************************************************************************)
(* The generator's fields (constructor).                                   *)
(***************************************************************************)
rowsPerSpread == 24
marginTop == 40
rowHeight == 17

(***************************************************************************)
(* Input: flight records and custom field definitions.                     *)
(***************************************************************************)
EngineTypes == {"Single Engine", "Multi Engine", "Turbine"}
Categories == {"Helicopter", "Aeroplane", "Simulator", "Glider"}

LongDetails ==
    "Navigation exercise with diversion, low level and confined area landings"

\* A record with every hour field filled with a different non-zero value.
FullFlight(engine, category) ==
    [date |-> "2024-01-05", aircraft_type |-> "R44", registration |-> "ZK-HAB",
     pilot_in_command |-> "Self", copilot_student |-> "A Student",
     flight_details |-> LongDetails,
     aircraft_category |-> category, engine_type |-> engine,
     day_dual |-> 1, day_pic |-> 2, night_dual |-> 3, night_pic |-> 4,
     day_sic |-> 5, day_cmnd_practice |-> 6, night_sic |-> 7,
     night_cmnd_practice |-> 8, instrument_hours |-> 9,
     simulated_instrument_hours |-> 10, ground_instrument_hours |-> 11,
     flight_time_hours |-> 12,
     customFieldValues |-> [defined |-> TRUE, map |-> (1 :> 13) @@ (2 :> 14) @@ (4 :> 15)]]

\* A record with missing, null and zero fields among the filled ones.
SparseFlight(engine, category) ==
    [date |-> "", aircraft_type |-> "", registration |-> "B412",
     pilot_in_command |-> "", copilot_student |-> "",
     flight_details |-> "Circuits",
     aircraft_category |-> category, engine_type |-> engine,
     day_dual |-> Undefined, day_pic |-> 20, night_dual |-> 0, night_pic |-> Null,
     day_sic |-> 0, day_cmnd_practice |-> Undefined, night_sic |-> 30,
     night_cmnd_practice |-> Null, instrument_hours |-> Undefined,
     simulated_instrument_hours |-> 0, ground_instrument_hours |-> 40,
     flight_time_hours |-> 50,
     customFieldValues |-> [defined |-> TRUE, map |-> (2 :> 0) @@ (3 :> 60)]]

\* A record that carries no numeric value at all.
BlankFlight(engine, category) ==
    [date |-> "2023-12-31", aircraft_type |-> "B206", registration |-> "",
     pilot_in_command |-> "Instructor", copilot_student |-> "Self",
     flight_details |-> "",
     aircraft_category |-> category, engine_type |-> engine,
     day_dual |-> Undefined, day_pic |-> Undefined, night_dual |-> Undefined,
     night_pic |-> Undefined, day_sic |-> Undefined,
     day_cmnd_practice |-> Undefined, night_sic |-> Undefined,
     night_cmnd_practice |-> Undefined, instrument_hours |-> Undefined,
     simulated_instrument_hours |-> Undefined,
     ground_instrument_hours |-> Undefined, flight_time_hours |-> Undefined,
     customFieldValues |-> [defined |-> FALSE, map |-> <<>>]]

NextEngine(e) ==
    CASE e = "Single Engine" -> "Multi Engine"
      [] e = "Multi Engine" -> "Turbine"
      [] OTHER -> "Single Engine"

\* The flight lists generate is run on: n flights alternating between two
\* records a and b.
FlightCounts ==
    {n \in 0..MaxFlights : n % rowsPerSpread \in {0, 1, 2, 5, 6, 23}}

FlightPairs ==
    {<<FullFlight(e, c), SparseFlight(NextEngine(e), d)>> :
        e \in EngineTypes, c \in Categories, d \in Categories}
    \cup {<<SparseFlight(e, c), FullFlight(e, c)>> :
        e \in EngineTypes, c \in Categories}
    \cup {<<BlankFlight(e, c), FullFlight(NextEngine(e), c)>> :
        e \in EngineTypes, c \in Categories}
    \cup {<<BlankFlight(e, c), BlankFlight(e, c)>> :
        e \in {"Single Engine"}, c \in {"Aeroplane", "Simulator"}}

FlightList(pair, n) == [i \in 1..n |-> IF i % 2 = 1 THEN pair[1] ELSE pair[2]]

\* The i-th record of a logbook kept over three years: every record has its
\* own registration, and the year changes inside the first and the second
\* run of 24 records.
NumberedFlight(i) ==
    [FullFlight("Single Engine", "Helicopter") EXCEPT
        !.registration = "ZK-" \o ToString(i),
        !.date = IF i <= 12 THEN "2022-06-15"
                 ELSE IF i <= 40 THEN "2023-12-31" ELSE "2024-01-05"]

NumberedFlights(n) == [i \in 1..n |-> NumberedFlight(i)]

FlightLists ==
    {FlightList(p, n) : p \in FlightPairs, n \in FlightCounts}
        \cup {NumberedFlights(n) : n \in FlightCounts}

CustomField(id, label) == [id |-> id, field_label |-> label]

CustomFieldLists ==
    {<<>>,
     <<CustomField(1, "Turbine")>>,
     <<CustomField(2, "NVG"), CustomField(3, "Sling")>>}

(***************************************************************************)
(* Totals (initializeTotals, calculateTotals).                             *)
(***************************************************************************)
SingleEngineKeys == <<"se_day_dual", "se_day_pic", "se_night_dual", "se_night_pic">>

MultiEngineKeys ==
    <<"me_day_dual", "me_day_pic", "me_day_copilot", "me_day_cmnd",
      "me_night_dual", "me_night_pic", "me_night_copilot", "me_night_cmnd">>

InstrumentKeys == <<"instrument_actual", "instrument_simulated", "instrument_ground">>

CategoryKeys == <<"helicopter_total", "aeroplane_total", "simulator_total", "grand_total">>

Range(seq) == {seq[i] : i \in DOMAIN seq}

FixedKeys ==
    Range(SingleEngineKeys) \cup Range(MultiEngineKeys)
        \cup Range(InstrumentKeys) \cup Range(CategoryKeys)

\* `custom_${cf.id}`
customKey(cf) == "custom_" \o ToString(cf.id)

initializeTotals ==
    [k \in FixedKeys \cup {customKey(customFields[i]) : i \in DOMAIN customFields} |-> 0]

\* totals[key] += amount
Add(totals, key, amount) == [totals EXCEPT ![key] = @ + amount]

\* Mutant of customValue: when the flight has no value under cf.id, the value
\* stored under the largest field id of its map is taken instead.
customValueOrLast(flight, cf) ==
    IF ~flight.customFieldValues.defined \/ DOMAIN flight.customFieldValues.map = {}
    THEN Undefined
    ELSE IF cf.id \in DOMAIN flight.customFieldValues.map
         THEN flight.customFieldValues.map[cf.id]
         ELSE LET ids == DOMAIN flight.customFieldValues.map
              IN  flight.customFieldValues.map[CHOOSE id \in ids : \A other \in ids : other <= id]

\* flight.customFieldValues?.[cf.id]
customValue(flight, cf) ==
    IF flight.customFieldValues.defined /\ cf.id \in DOMAIN flight.customFieldValues.map
    THEN flight.customFieldValues.map[cf.id]
    ELSE Undefined

addSingleEngine(totals, flight) ==
    IF flight.engine_type = "Single Engine"
    THEN [totals EXCEPT
            !["se_day_dual"] = @ + OrZero(flight.day_dual),
            !["se_day_pic"] = @ + OrZero(flight.day_pic),
            !["se_night_dual"] = @ + OrZero(flight.night_dual),
            !["se_night_pic"] = @ + OrZero(flight.night_pic)]
    ELSE totals

\* Mutant of addMultiEngine: the engine-type test is missing.
addMultiEngineAlways(totals, flight) ==
    [totals EXCEPT
        !["me_day_dual"] = @ + OrZero(flight.day_dual),
        !["me_day_pic"] = @ + OrZero(flight.day_pic),
        !["me_day_copilot"] = @ + OrZero(flight.day_sic),
        !["me_day_cmnd"] = @ + OrZero(flight.day_cmnd_practice),
        !["me_night_dual"] = @ + OrZero(flight.night_dual),
        !["me_night_pic"] = @ + OrZero(flight.night_pic),
        !["me_night_copilot"] = @ + OrZero(flight.night_sic),
        !["me_night_cmnd"] = @ + OrZero(flight.night_cmnd_practice)]

addMultiEngine(totals, flight) ==
    IF flight.engine_type = "Multi Engine"
    THEN [totals EXCEPT
            !["me_day_dual"] = @ + OrZero(flight.day_dual),
            !["me_day_pic"] = @ + OrZero(flight.day_pic),
            !["me_day_copilot"] = @ + OrZero(flight.day_sic),
            !["me_day_cmnd"] = @ + OrZero(flight.day_cmnd_practice),
            !["me_night_dual"] = @ + OrZero(flight.night_dual),
            !["me_night_pic"] = @ + OrZero(flight.night_pic),
            !["me_night_copilot"] = @ + OrZero(flight.night_sic),
            !["me_night_cmnd"] = @ + OrZero(flight.night_cmnd_practice)]
    ELSE totals

\* Mutant of addInstrument: the instrument hours are added only for Single
\* Engine and Multi Engine flights.
addInstrumentKnownEngine(totals, flight) ==
    IF flight.engine_type \in {"Single Engine", "Multi Engine"}
    THEN [totals EXCEPT
            !["instrument_actual"] = @ + OrZero(flight.instrument_hours),
            !["instrument_simulated"] = @ + OrZero(flight.simulated_instrument_hours),
            !["instrument_ground"] = @ + OrZero(flight.ground_instrument_hours)]
    ELSE totals

addInstrument(totals, flight) ==
    [totals EXCEPT
        !["instrument_actual"] = @ + OrZero(flight.instrument_hours),
        !["instrument_simulated"] = @ + OrZero(flight.simulated_instrument_hours),
        !["instrument_ground"] = @ + OrZero(flight.ground_instrument_hours)]

\* Mutant of addCategory: every category that is neither Aeroplane nor
\* Simulator is counted as Helicopter.
addCategoryHelicopterDefault(totals, flight) ==
    IF flight.aircraft_category = "Aeroplane"
    THEN Add(totals, "aeroplane_total", OrZero(flight.flight_time_hours))
    ELSE IF flight.aircraft_category = "Simulator"
         THEN Add(totals, "simulator_total", OrZero(flight.flight_time_hours))
         ELSE Add(totals, "helicopter_total", OrZero(flight.flight_time_hours))

addCategory(totals, flight) ==
    LET t1 == IF flight.aircraft_category = "Helicopter"
              THEN Add(totals, "helicopter_total", OrZero(flight.flight_time_hours))
              ELSE totals
        t2 == IF flight.aircraft_category = "Aeroplane"
              THEN Add(t1, "aeroplane_total", OrZero(flight.flight_time_hours))
              ELSE t1
    IN  IF flight.aircraft_category = "Simulator"
        THEN Add(t2, "simulator_total", OrZero(flight.flight_time_hours))
        ELSE t2

\* Mutant of addGrandTotal: the Simulator exclusion is missing.
addGrandTotalAllFlights(totals, flight) ==
    Add(totals, "grand_total", OrZero(flight.flight_time_hours))

addGrandTotal(totals, flight) ==
    IF flight.aircraft_category # "Simulator"
    THEN Add(totals, "grand_total", OrZero(flight.flight_time_hours))
    ELSE totals

\* this.customFields.forEach(cf => totals[`custom_${cf.id}`] += value)
RECURSIVE addCustom(_, _, _)
addCustom(totals, flight, i) ==
    IF i > Len(customFields) THEN totals
    ELSE addCustom(
            Add(totals, customKey(customFields[i]),
                OrZero(customValue(flight, customFields[i]))),
            flight, i + 1)

\* The body of the flights.forEach callback of calculateTotals.
addFlight(totals, flight) ==
    addCustom(
        addGrandTotal(
            addCategory(
                addInstrument(
                    addMultiEngine(addSingleEngine(totals, flight), flight),
                    flight),
                flight),
            flight),
        flight, 1)

\* flights.forEach(flight => { ... }) from the flight with index i on.  (The
\* test on the domain only makes the evaluator compute each step's totals
\* before the next step.)
RECURSIVE foldFlights(_, _, _)
foldFlights(fl, i, totals) ==
    IF i > Len(fl) THEN totals
    ELSE LET next == addFlight(totals, fl[i])
         IN  IF DOMAIN next = {} THEN next ELSE foldFlights(fl, i + 1, next)

\* Mutant of calculateTotals: the totals start from zero instead of from a
\* copy of previousTotals.
calculateTotalsFromZero(fl, previousTotals) == foldFlights(fl, 1, initializeTotals)

calculateTotals(fl, previousTotals) == foldFlights(fl, 1, previousTotals)

\* Mutant of previousTotalsAfter: the loop adds to the caller's object
\* (const totals = previousTotals).
previousTotalsAliased(fl, previousTotals) == foldFlights(fl, 1, previousTotals)

\* const totals = { ...previousTotals }: the loop adds to a copy, so the
\* object the caller passed as previousTotals holds, after the call, the
\* values it held before.
previousTotalsAfter(fl, previousTotals) == previousTotals

(***************************************************************************)
(* Formatters.                                                             *)
(***************************************************************************)
\* Number.prototype.toFixed(1) of a number of tenths.
toFixed1(hours) == ToString(hours \div 10) \o "." \o ToString(hours % 10)

\* Mutant of formatHours: a zero is left blank, as in formatHoursCell.
formatHoursBlankZero(hours) == IF Falsy(hours) THEN "" ELSE toFixed1(hours)

formatHours(hours) == IF Falsy(hours) THEN "0.0" ELSE toFixed1(hours)

formatHoursCell(hours) == IF Falsy(hours) THEN "" ELSE toFixed1(hours)

months == <<"Jan", "Feb", "Mar", "Apr", "May", "Jun",
            "Jul", "Aug", "Sep", "Oct", "Nov", "Dec">>

formatDate(dateString) ==
    IF dateString = "" THEN ""
    ELSE LET parts == Split(dateString, "-")
             month == ElementOrUndefined(parts, 1)
             day == ElementOrUndefined(parts, 2)
         IN  ElementOrUndefined(months, ParseInt(month) - 1) \o "-" \o day

getYear(dateString) ==
    IF dateString = "" THEN "" ELSE Split(dateString, "-")[1]

\* Mutant of truncateText: the text is cut at maxLength, not at
\* maxLength - 3, before the ellipsis is appended.
truncateTextCutAtMaxLength(text, maxLength) ==
    IF text = "" \/ Len(text) <= maxLength THEN text
    ELSE Substring(text, 0, maxLength) \o "..."

\* Mutant of truncateText: the text is cut but no ellipsis is appended.
truncateTextNoEllipsis(text, maxLength) ==
    IF text = "" \/ Len(text) <= maxLength THEN text
    ELSE Substring(text, 0, maxLength - 3)

truncateText(text, maxLength) ==
    IF text = "" \/ Len(text) <= maxLength THEN text
    ELSE Substring(text, 0, maxLength - 3) \o "..."

(***************************************************************************)
(* Pages.  A page records what the page engine drew on it: the horizontal  *)
(* row lines of the grid (their y positions), one row of cell texts per    *)
(* flight (with the y position of the text), the brought-forward snapshot  *)
(* the engine was called with and the texts of the brought-forward row,    *)
(* the cumulative totals the engine computed for its footer, the footer    *)
(* texts and the page label.                                               *)
(***************************************************************************)
Page(kind, year, text, hlines, rows, broughtForward, bfRow, cumulative, footer, label, layout) ==
    [kind |-> kind, year |-> year, text |-> text, hlines |-> hlines,
     rows |-> rows, broughtForward |-> broughtForward, bfRow |-> bfRow,
     cumulative |-> cumulative, footer |-> footer, label |-> label,
     layout |-> layout]

\* doc.addPage(); doc.fontSize(14).text('No flights to export', 100, 100)
placeholderPage ==
    Page("text", "", "No flights to export", <<>>, <<>>, <<>>, <<>>, <<>>,
         <<>>, "", <<>>)

\* y of the first data row on Page A: marginTop + 35, + 15, + 5, + rowHeight
pageADataY == marginTop + 35 + 15 + 5 + rowHeight

\* y of the first data row on Page B: marginTop + 12 + 12 + 15 + 12, + 3,
\* + rowHeight
pageBDataY == marginTop + 12 + 12 + 15 + 12 + 3 + rowHeight

\* Mutant of gridLines: the loop stops one boundary early (i < rowsPerSpread).
gridLinesShort(y) == [i \in 1..rowsPerSpread |-> y + ((i - 1) * rowHeight) - 3]

\* for (let i = 0; i <= this.rowsPerSpread; i++) ... rowY = y + i*rowHeight - 3
gridLines(y) == [i \in 1..(rowsPerSpread + 1) |-> y + ((i - 1) * rowHeight) - 3]

\* textY of the flight with (zero-based) index: y + index*rowHeight + 4
textY(y, index) == y + (index * rowHeight) + 4

pageACells(flight) ==
    <<formatDate(flight.date), flight.aircraft_type, flight.registration,
      flight.pilot_in_command, flight.copilot_student,
      truncateText(flight.flight_details, 60)>>

pageAFooter(cumulativeTotals) ==
    <<formatHours(cumulativeTotals["aeroplane_total"]),
      formatHours(cumulativeTotals["helicopter_total"]),
      formatHours(cumulativeTotals["simulator_total"]),
      formatHours(cumulativeTotals["grand_total"])>>

pageLabel(pageNum, side, totalPages) ==
    "Page " \o ToString(pageNum) \o side \o " of " \o ToString(totalPages)

(***************************************************************************)
(* Horizontal layout.  x positions and widths are in hundredths of a       *)
(* point.  pageWidth stands for the double nearest to 841.89; the sums and *)
(* differences of it with the whole numbers below are exact in doubles.    *)
(***************************************************************************)
pageWidth == 84189
marginLeft == 5000
marginRight == 5000

\* const contentWidth = this.pageWidth - this.marginLeft - this.marginRight
contentWidth == pageWidth - marginLeft - marginRight

\* Object.values(this.pageAColumns).reduce((a, b) => a + b, 0), with
\* details still 0
usedWidth == 5500 + 5000 + 6000 + 9500 + 9500 + 0

\* Mutant of pageAColumns: the details column gets the whole available
\* width.
pageAColumnsWideDetails ==
    [date |-> 5500, type |-> 5000, registration |-> 6000, pic |-> 9500,
     copilot |-> 9500, details |-> pageWidth - marginLeft - marginRight]

\* this.pageAColumns, after this.pageAColumns.details = availableWidth -
\* usedWidth
pageAColumns ==
    [date |-> 5500, type |-> 5000, registration |-> 6000, pic |-> 9500,
     copilot |-> 9500, details |-> (pageWidth - marginLeft - marginRight) - usedWidth]

\* tableStartY of drawPageA: marginTop + 35, + 15
pageATableStartY == marginTop + 35 + 15

\* headerRowY = this.marginTop + 15
pageAHeaderRowY == marginTop + 15

\* gridEndY = y + rowsPerSpread * rowHeight, with y the first data row's y
pageAGridEndY == pageADataY + (rowsPerSpread * rowHeight)

\* colPositions of drawPageA
colPositions ==
    <<marginLeft,
      marginLeft + pageAColumns.date,
      marginLeft + pageAColumns.date + pageAColumns.type,
      marginLeft + pageAColumns.date + pageAColumns.type + pageAColumns.registration,
      marginLeft + pageAColumns.date + pageAColumns.type + pageAColumns.registration
        + pageAColumns.pic,
      marginLeft + pageAColumns.date + pageAColumns.type + pageAColumns.registration
        + pageAColumns.pic + pageAColumns.copilot,
      marginLeft + contentWidth>>

\* Mutant of pageAVerticalLines: every line starts at the header row.
pageAVerticalLinesAllHigh ==
    [i \in 1..Len(colPositions) |->
        [x |-> colPositions[i], top |-> pageAHeaderRowY, bottom |-> pageAGridEndY - 3]]

\* colPositions.forEach((xPos, index) => { startY = index >= 3 ? headerRowY
\* : tableStartY; moveTo(xPos, startY).lineTo(xPos, gridEndY - 3) })
pageAVerticalLines ==
    [i \in 1..Len(colPositions) |->
        [x |-> colPositions[i],
         top |-> IF i - 1 >= 3 THEN pageAHeaderRowY ELSE pageATableStartY,
         bottom |-> pageAGridEndY - 3]]

\* What drawPageA lays out besides the rows: the column widths in column
\* order, the x of the column header texts' columns and the vertical lines.
pageALayout ==
    [widths |-> <<pageAColumns.date, pageAColumns.type, pageAColumns.registration,
                  pageAColumns.pic, pageAColumns.copilot, pageAColumns.details>>,
     tableEndX |-> marginLeft + contentWidth,
     vlines |-> pageAVerticalLines]

drawPageA(fl, year, pageNum, totalPages, broughtForward) ==
    Page("A", year, "",
         gridLines(pageADataY),
         [i \in 1..Len(fl) |->
            [y |-> textY(pageADataY, i - 1), cells |-> pageACells(fl[i])]],
         broughtForward,
         <<>>,
         calculateTotals(fl, broughtForward),
         pageAFooter(calculateTotals(fl, broughtForward)),
         pageLabel(pageNum, "a", totalPages),
         pageALayout)

\* const numFixedCols = 15
numFixedCols == 15

\* totalCols = numFixedCols + this.customFields.length
totalCols == numFixedCols + Len(customFields)

(***************************************************************************)
(* IEEE-754 double arithmetic for contentWidth / totalCols and             *)
(* colWidth * totalCols.  A mantissa is a natural number written in base   *)
(* 10000, least significant limb first; results are rounded to nearest,    *)
(* ties to even.                                                           *)
(***************************************************************************)
limbBase == 10000

\* a * k for a small natural k
RECURSIVE BigMulFrom(_, _, _, _)
BigMulFrom(a, k, i, carry) ==
    IF i > Len(a) THEN <<>>
    ELSE LET v == (a[i] * k) + carry
         IN  <<v % limbBase>> \o BigMulFrom(a, k, i + 1, v \div limbBase)

BigMul(a, k) == BigMulFrom(a, k, 1, 0)

\* a + carry for a small natural carry
RECURSIVE BigAddFrom(_, _, _)
BigAddFrom(a, i, carry) ==
    IF i > Len(a) THEN <<>>
    ELSE LET v == a[i] + carry
         IN  <<v % limbBase>> \o BigAddFrom(a, i + 1, v \div limbBase)

\* quotient and remainder of a by a small positive k (long division from
\* limb i down, rem the remainder of the limbs above)
RECURSIVE BigDivFrom(_, _, _, _)
BigDivFrom(a, k, i, rem) ==
    IF i = 0 THEN [q |-> <<>>, r |-> rem]
    ELSE LET v == (rem * limbBase) + a[i]
             rest == BigDivFrom(a, k, i - 1, v % k)
         IN  [q |-> Append(rest.q, v \div k), r |-> rest.r]

\* -1, 0 or 1 as a is less than, equal to or greater than b
RECURSIVE BigCompareFrom(_, _, _)
BigCompareFrom(a, b, i) ==
    IF i = 0 THEN 0
    ELSE IF a[i] < b[i] THEN -1
    ELSE IF a[i] > b[i] THEN 1
    ELSE BigCompareFrom(a, b, i - 1)

\* a - b for two mantissas that differ by a small number
RECURSIVE BigDifferenceFrom(_, _, _, _)
BigDifferenceFrom(a, b, i, d) ==
    IF i = 0 THEN d
    ELSE BigDifferenceFrom(a, b, i - 1, (d * limbBase) + (a[i] - b[i]))

\* a / k rounded to the nearest natural number, ties to even
RoundedQuotient(a, k) ==
    LET dm == BigDivFrom(a, k, Len(a), 0)
        up == (2 * dm.r > k) \/ (2 * dm.r = k /\ dm.q[1] % 2 = 1)
    IN  IF up THEN BigAddFrom(dm.q, 1, 1) ELSE dm.q

\* 2^52, the least 53-bit mantissa
twoTo52 == <<496, 2737, 5996, 4503, 0, 0>>

\* The mantissa of contentWidth = 841.89 - 50 - 50 as a double:
\* 6525733452245893 * 2^-43
contentWidthMantissa == <<5893, 5224, 7334, 6525, 0, 0>>

\* The power of two that makes contentWidthMantissa * scale / n a 53-bit
\* mantissa.
RECURSIVE QuotientScale(_, _)
QuotientScale(n, scale) ==
    IF BigCompareFrom(BigMul(contentWidthMantissa, scale), BigMul(twoTo52, n),
                      Len(twoTo52)) >= 0
    THEN scale
    ELSE QuotientScale(n, 2 * scale)

\* The mantissa of the double contentWidth / n (in units of 2^-43 / scale)
quotientMantissa(n) ==
    RoundedQuotient(BigMul(contentWidthMantissa, QuotientScale(n, 1)), n)

\* The mantissa of the double (contentWidth / n) * n, in units of 2^-43
productMantissa(n) ==
    RoundedQuotient(BigMul(quotientMantissa(n), n), QuotientScale(n, 1))

\* (contentWidth / n) * n - contentWidth in doubles, in units of 2^-43 pt
gridWidthExcess(n) ==
    BigDifferenceFrom(productMantissa(n), contentWidthMantissa,
                      Len(contentWidthMantissa), 0)

\* this.pageBColumnWidth = 43
pageBColumnWidth == 4300

\* colWidth = Math.min(this.pageBColumnWidth, contentWidth / totalCols):
\* whether the minimum is the fixed width
colWidthIsFixed == pageBColumnWidth * totalCols <= contentWidth

\* Mutant of pageBTableEndX: the column width is always the fixed width.
pageBTableEndXFixedWidth ==
    [hundredths |-> marginLeft + (pageBColumnWidth * totalCols), ulps |-> 0]

\* tableEndX = this.marginLeft + (colWidth * totalCols): a number of
\* hundredths of a point plus a number of units of 2^-43 pt
pageBTableEndX ==
    IF colWidthIsFixed
    THEN [hundredths |-> marginLeft + (pageBColumnWidth * totalCols), ulps |-> 0]
    ELSE [hundredths |-> marginLeft + contentWidth, ulps |-> gridWidthExcess(totalCols)]

\* The section headers of Page B; OTHER only if (numCustomCols > 0).
pageBSections ==
    <<"SINGLE-ENGINE", "MULTI-ENGINE", "INSTRUMENT">>
        \o (IF Len(customFields) > 0 THEN <<"OTHER">> ELSE <<>>)

\* Mutant of columnNumbers: only the fixed columns are numbered.
columnNumbersFixedOnly == [i \in 1..numFixedCols |-> ToString(i)]

\* for (let i = 1; i <= totalCols; i++) doc.text(String(i), ...)
columnNumbers == [i \in 1..totalCols |-> ToString(i)]

\* What drawPageB lays out besides the rows: the right edge of the grid,
\* the section headers and the two rows of column numbers.
pageBLayout ==
    [colWidthIsFixed |-> colWidthIsFixed,
     tableEndX |-> pageBTableEndX,
     sections |-> pageBSections,
     headerNumbers |-> columnNumbers,
     footerNumbers |-> columnNumbers]

\* The fifteen fixed columns of Page B, in column order.
pageBKeys == SingleEngineKeys \o MultiEngineKeys \o InstrumentKeys

\* bfValues / totalValues: the fixed columns, then one value per custom field
\* (totals[`custom_${cf.id}`] || 0)
totalValues(totals) ==
    [i \in 1..Len(pageBKeys) |-> totals[pageBKeys[i]]]
        \o [i \in 1..Len(customFields) |->
                LET key == customKey(customFields[i])
                IN  IF key \in DOMAIN totals THEN OrZero(totals[key]) ELSE 0]

\* x.forEach(val => doc.text(this.formatHoursCell(val), ...))
formatCells(values) == [i \in 1..Len(values) |-> formatHoursCell(values[i])]

pageBTotalsRow(cumulativeTotals) == formatCells(totalValues(cumulativeTotals))

\* Mutant of pageBCells: the multi-engine cells are filled for every flight.
pageBCellsMultiAlways(flight) ==
    LET isSingleEngine == flight.engine_type = "Single Engine"
        se(v) == IF isSingleEngine THEN formatHoursCell(v) ELSE ""
        me(v) == formatHoursCell(v)
    IN  <<se(flight.day_dual), se(flight.day_pic),
          se(flight.night_dual), se(flight.night_pic),
          me(flight.day_dual), me(flight.day_pic),
          me(flight.day_sic), me(flight.day_cmnd_practice),
          me(flight.night_dual), me(flight.night_pic),
          me(flight.night_sic), me(flight.night_cmnd_practice),
          formatHoursCell(flight.instrument_hours),
          formatHoursCell(flight.simulated_instrument_hours),
          formatHoursCell(flight.ground_instrument_hours)>>
        \o [i \in 1..Len(customFields) |->
                formatHoursCell(OrZero(customValue(flight, customFields[i])))]

pageBCells(flight) ==
    LET isSingleEngine == flight.engine_type = "Single Engine"
        isMultiEngine == flight.engine_type = "Multi Engine"
        se(v) == IF isSingleEngine THEN formatHoursCell(v) ELSE ""
        me(v) == IF isMultiEngine THEN formatHoursCell(v) ELSE ""
    IN  <<se(flight.day_dual), se(flight.day_pic),
          se(flight.night_dual), se(flight.night_pic),
          me(flight.day_dual), me(flight.day_pic),
          me(flight.day_sic), me(flight.day_cmnd_practice),
          me(flight.night_dual), me(flight.night_pic),
          me(flight.night_sic), me(flight.night_cmnd_practice),
          formatHoursCell(flight.instrument_hours),
          formatHoursCell(flight.simulated_instrument_hours),
          formatHoursCell(flight.ground_instrument_hours)>>
        \o [i \in 1..Len(customFields) |->
                formatHoursCell(OrZero(customValue(flight, customFields[i])))]

\* Mutant of drawPageB: the cumulative totals of the totals row are
\* accumulated from zero instead of from the brought-forward snapshot.
drawPageBSpreadOnly(fl, pageNum, totalPages, broughtForward) ==
    Page("B", "", "",
         gridLines(pageBDataY),
         [i \in 1..Len(fl) |->
            [y |-> textY(pageBDataY, i - 1), cells |-> pageBCells(fl[i])]],
         broughtForward,
         formatCells(totalValues(broughtForward)),
         calculateTotals(fl, initializeTotals),
         pageBTotalsRow(calculateTotals(fl, initializeTotals)),
         pageLabel(pageNum, "b", totalPages),
         pageBLayout)

drawPageB(fl, pageNum, totalPages, broughtForward) ==
    Page("B", "", "",
         gridLines(pageBDataY),
         [i \in 1..Len(fl) |->
            [y |-> textY(pageBDataY, i - 1), cells |-> pageBCells(fl[i])]],
         broughtForward,
         formatCells(totalValues(broughtForward)),
         calculateTotals(fl, broughtForward),
         pageBTotalsRow(calculateTotals(fl, broughtForward)),
         pageLabel(pageNum, "b", totalPages),
         pageBLayout)

\* The custom-field header cells of Page B: cf.field_label.toUpperCase()
\* is a TypeError for a definition without field_label.
hasLabel(cf) == "field_label" \in DOMAIN cf

\* Page B as it stands when the header loop raises: the page has been added
\* and the section headers drawn, but no grid, row or footer.
drawPageBRaised(broughtForward) ==
    Page("B", "", "", <<>>, <<>>, broughtForward, <<>>, <<>>, <<>>, "", <<>>)

(***************************************************************************)
(* generate(flights)                                                       *)
(***************************************************************************)
\* Mutant of Ceil: the quotient is rounded down.
CeilAsFloor(a, b) == a \div b

\* Math.ceil(a / b) for a >= 0, b > 0
Ceil(a, b) == (a + b - 1) \div b

\* Array.prototype.slice(start, end) with 0 <= start <= end
Slice(a, start, end) == SubSeq(a, start + 1, Min(end, Len(a)))

\* Mutant of spreadFlights: the slice's end index is taken as inclusive.
spreadFlightsInclusiveEnd ==
    Slice(flights, spreadIndex * rowsPerSpread,
          (spreadIndex * rowsPerSpread) + rowsPerSpread + 1)

\* flights.slice(startIdx, startIdx + this.rowsPerSpread)
spreadFlights ==
    Slice(flights, spreadIndex * rowsPerSpread,
          (spreadIndex * rowsPerSpread) + rowsPerSpread)

\* The text harness at rest.
NoText == [dateString |-> "", text |-> "", maxLength |-> 0]

NoTextResult == [done |-> FALSE, date |-> "", year |-> "", truncated |-> "", row |-> <<>>]

Inputs ==
    /\ customFields \in CustomFieldLists
    /\ flights \in FlightLists
    /\ flightsIsNull = FALSE

Idle ==
    /\ doc = <<>>
    /\ totalSpreads = 0
    /\ spreadIndex = 0
    /\ runningTotals = <<>>
    /\ totalsCalls = 0

Init ==
    /\ Inputs
    /\ pc = "start"
    /\ Idle
    /\ foldPos = 0
    /\ foldTotals = <<>>
    /\ fmtIn = 0
    /\ fmtOut = [done |-> FALSE, footer |-> "", cell |-> ""]
    /\ txtIn = NoText
    /\ txtOut = NoTextResult

\* Mutant of GenerateEmpty: the placeholder page is added but generate does
\* not return, and goes on to the totals and the loop.
GenerateEmptyNoReturn ==
    /\ pc = "start"
    /\ ~flightsIsNull
    /\ Len(flights) = 0
    /\ doc' = Append(doc, placeholderPage)
    /\ totalSpreads' = Ceil(Len(flights), rowsPerSpread)
    /\ runningTotals' = initializeTotals
    /\ totalsCalls' = totalsCalls + 1
    /\ spreadIndex' = 0
    /\ pc' = IF 0 < Ceil(Len(flights), rowsPerSpread) THEN "pageA" ELSE "done"
    /\ UNCHANGED <<customFields, flights, flightsIsNull, foldPos, foldTotals, fmtIn, fmtOut, txtIn, txtOut>>

\* flights.length of a null argument is a TypeError: generate raises to its
\* caller before addPage or any drawing call.
GenerateNull ==
    /\ pc = "start"
    /\ flightsIsNull
    /\ pc' = "raised"
    /\ UNCHANGED <<customFields, flights, flightsIsNull, doc, totalSpreads,
                   spreadIndex, runningTotals, totalsCalls, foldPos,
                   foldTotals, fmtIn, fmtOut, txtIn, txtOut>>

\* if (flights.length === 0) { ...; return doc; }
GenerateEmpty ==
    /\ pc = "start"
    /\ ~flightsIsNull
    /\ Len(flights) = 0
    /\ doc' = Append(doc, placeholderPage)
    /\ pc' = "done"
    /\ UNCHANGED <<customFields, flights, flightsIsNull, totalSpreads, spreadIndex,
                   runningTotals, totalsCalls, foldPos, foldTotals, fmtIn, fmtOut, txtIn, txtOut>>

\* totalSpreads = Math.ceil(...); runningTotals = this.initializeTotals();
\* spreadIndex = 0
GenerateBegin ==
    /\ pc = "start"
    /\ ~flightsIsNull
    /\ Len(flights) # 0
    /\ totalSpreads' = Ceil(Len(flights), rowsPerSpread)
    /\ runningTotals' = initializeTotals
    /\ totalsCalls' = totalsCalls + 1
    /\ spreadIndex' = 0
    /\ pc' = IF 0 < Ceil(Len(flights), rowsPerSpread) THEN "pageA" ELSE "done"
    /\ UNCHANGED <<customFields, flights, flightsIsNull, doc, foldPos, foldTotals, fmtIn, fmtOut, txtIn, txtOut>>

\* Mutant of DrawPageA: the year is read from the first flight of the
\* document.
DrawPageAYearOfFirstFlight ==
    /\ pc = "pageA"
    /\ doc' = Append(doc, drawPageA(spreadFlights, getYear(flights[1].date),
                                    spreadIndex + 1, totalSpreads, runningTotals))
    /\ runningTotals' = previousTotalsAfter(spreadFlights, runningTotals)
    /\ totalsCalls' = totalsCalls + 1
    /\ pc' = "pageB"
    /\ UNCHANGED <<customFields, flights, flightsIsNull, totalSpreads,
                   spreadIndex, foldPos, foldTotals, fmtIn, fmtOut, txtIn, txtOut>>

\* doc.addPage(); this.drawPageA(doc, spreadFlights, year, spreadIndex + 1,
\* totalSpreads, runningTotals)
DrawPageA ==
    /\ pc = "pageA"
    /\ doc' = Append(doc, drawPageA(spreadFlights, getYear(spreadFlights[1].date),
                                    spreadIndex + 1, totalSpreads, runningTotals))
    /\ runningTotals' = previousTotalsAfter(spreadFlights, runningTotals)
    /\ totalsCalls' = totalsCalls + 1
    /\ pc' = "pageB"
    /\ UNCHANGED <<customFields, flights, flightsIsNull, totalSpreads,
                   spreadIndex, foldPos, foldTotals, fmtIn, fmtOut, txtIn, txtOut>>

\* doc.addPage(); this.drawPageB(doc, spreadFlights, spreadIndex + 1,
\* totalSpreads, runningTotals), when every header label can be drawn
DrawPageB ==
    /\ pc = "pageB"
    /\ \A i \in DOMAIN customFields : hasLabel(customFields[i])
    /\ doc' = Append(doc, drawPageB(spreadFlights, spreadIndex + 1,
                                    totalSpreads, runningTotals))
    /\ runningTotals' = previousTotalsAfter(spreadFlights, runningTotals)
    /\ totalsCalls' = totalsCalls + 1
    /\ pc' = "accumulate"
    /\ UNCHANGED <<customFields, flights, flightsIsNull, totalSpreads,
                   spreadIndex, foldPos, foldTotals, fmtIn, fmtOut, txtIn, txtOut>>

\* doc.addPage(); this.drawPageB(...) when a custom field definition has no
\* field_label: the header loop raises out of drawPageB and generate, with
\* Page A drawn and Page B added.
DrawPageBRaise ==
    /\ pc = "pageB"
    /\ \E i \in DOMAIN customFields : ~hasLabel(customFields[i])
    /\ doc' = Append(doc, drawPageBRaised(runningTotals))
    /\ pc' = "raised"
    /\ UNCHANGED <<customFields, flights, flightsIsNull, totalSpreads,
                   spreadIndex, runningTotals, totalsCalls, foldPos,
                   foldTotals, fmtIn, fmtOut, txtIn, txtOut>>

\* Mutant of UpdateRunningTotals: the spread's totals replace the running
\* totals instead of being added to them.
UpdateRunningTotalsSpreadOnly ==
    /\ pc = "accumulate"
    /\ runningTotals' = calculateTotals(spreadFlights, initializeTotals)
    /\ totalsCalls' = totalsCalls + 1
    /\ spreadIndex' = spreadIndex + 1
    /\ pc' = IF spreadIndex + 1 < totalSpreads THEN "pageA" ELSE "done"
    /\ UNCHANGED <<customFields, flights, flightsIsNull, doc, totalSpreads,
                   foldPos, foldTotals, fmtIn, fmtOut, txtIn, txtOut>>

\* runningTotals = this.calculateTotals(spreadFlights, runningTotals);
\* spreadIndex++; the loop test; return doc
UpdateRunningTotals ==
    /\ pc = "accumulate"
    /\ runningTotals' = calculateTotals(spreadFlights, runningTotals)
    /\ totalsCalls' = totalsCalls + 1
    /\ spreadIndex' = spreadIndex + 1
    /\ pc' = IF spreadIndex + 1 < totalSpreads THEN "pageA" ELSE "done"
    /\ UNCHANGED <<customFields, flights, flightsIsNull, doc, totalSpreads,
                   foldPos, foldTotals, fmtIn, fmtOut, txtIn, txtOut>>

Next ==
    \/ GenerateEmpty
    \/ GenerateBegin
    \/ DrawPageA
    \/ DrawPageB
    \/ UpdateRunningTotals

Spec == Init /\ [][Next]_vars

(***************************************************************************)
(* The class used directly: the constructor takes any customFields array   *)
(* (this.customFields = options.customFields || []) and generate any       *)
(* argument, so more than three definitions, a definition without          *)
(* field_label and a null flight list are possible.                        *)
(***************************************************************************)
MaxDirectFlights == 25
MaxDirectFields == 8

DirectCustomFieldLists ==
    CustomFieldLists
        \cup {<<CustomField(1, "Turbine"), CustomField(2, "NVG"),
                CustomField(3, "Sling")>>,
              <<CustomField(1, "Turbine"), CustomField(2, "NVG"),
                CustomField(3, "Sling"), CustomField(4, "Float")>>,
              <<[id |-> 1]>>,
              <<CustomField(2, "NVG"), [id |-> 3]>>,
              <<CustomField(2, "NVG"), CustomField(2, "NVG")>>,
              <<CustomField(1, "Turbine"), CustomField(3, "Sling"),
                CustomField(1, "Turbine")>>}
        \cup {[i \in 1..n |-> CustomField(i, "Field")] : n \in 5..MaxDirectFields}

DirectFlightLists ==
    {FlightList(p, n) : p \in FlightPairs,
                        n \in {m \in 0..MaxDirectFlights : m % rowsPerSpread \in {0, 1}}}

InitDirect ==
    /\ customFields \in DirectCustomFieldLists
    /\ flightsIsNull \in BOOLEAN
    /\ flights \in IF flightsIsNull THEN {<<>>} ELSE DirectFlightLists
    /\ pc = "start"
    /\ Idle
    /\ foldPos = 0
    /\ foldTotals = <<>>
    /\ fmtIn = 0
    /\ fmtOut = [done |-> FALSE, footer |-> "", cell |-> ""]
    /\ txtIn = NoText
    /\ txtOut = NoTextResult

NextDirect ==
    \/ GenerateNull
    \/ GenerateEmpty
    \/ GenerateBegin
    \/ DrawPageA
    \/ DrawPageB
    \/ DrawPageBRaise
    \/ UpdateRunningTotals

SpecDirect == InitDirect /\ [][NextDirect]_vars

(***************************************************************************)
(* calculateTotals folded chunk by chunk: every call takes an arbitrary    *)
(* number of the remaining flights and the previous call's result.         *)
(***************************************************************************)
MaxFoldFlights == 6

FoldLists == {FlightList(p, n) : p \in FlightPairs, n \in 0..MaxFoldFlights}

InitFold ==
    /\ customFields \in CustomFieldLists
    /\ flights \in FoldLists
    /\ flightsIsNull = FALSE
    /\ pc = "fold"
    /\ Idle
    /\ foldPos = 0
    /\ foldTotals = initializeTotals
    /\ fmtIn = 0
    /\ fmtOut = [done |-> FALSE, footer |-> "", cell |-> ""]
    /\ txtIn = NoText
    /\ txtOut = NoTextResult

\* totals = this.calculateTotals(chunk, totals) for the next k flights
FoldChunk(k) ==
    /\ pc = "fold"
    /\ foldPos + k <= Len(flights)
    /\ foldTotals' = calculateTotals(SubSeq(flights, foldPos + 1, foldPos + k),
                                     foldTotals)
    /\ foldPos' = foldPos + k
    /\ UNCHANGED <<customFields, flights, flightsIsNull, genVars, fmtIn, fmtOut, txtIn, txtOut>>

NextFold == \E k \in 0..MaxFoldFlights : FoldChunk(k)

SpecFold == InitFold /\ [][NextFold]_vars

(***************************************************************************)
(* The hour formatters applied to one value.                               *)
(***************************************************************************)
HourInputs == {Undefined, Null} \cup (0..MaxFmtHours)

InitFormat ==
    /\ customFields = <<>>
    /\ flights = <<>>
    /\ flightsIsNull = FALSE
    /\ pc = "format"
    /\ Idle
    /\ foldPos = 0
    /\ foldTotals = <<>>
    /\ fmtIn \in HourInputs
    /\ fmtOut = [done |-> FALSE, footer |-> "", cell |-> ""]
    /\ txtIn = NoText
    /\ txtOut = NoTextResult

\* this.formatHours(hours) and this.formatHoursCell(hours)
FormatHours ==
    /\ pc = "format"
    /\ ~fmtOut.done
    /\ fmtOut' = [done |-> TRUE, footer |-> formatHours(fmtIn),
                  cell |-> formatHoursCell(fmtIn)]
    /\ UNCHANGED <<customFields, flights, flightsIsNull, genVars, foldPos, foldTotals, fmtIn, txtIn, txtOut>>

NextFormat == FormatHours

SpecFormat == InitFormat /\ [][NextFormat]_vars

(***************************************************************************)
(* The date and text formatters applied to one date string and one text,   *)
(* directly and through a Page A row.                                      *)
(***************************************************************************)
MaxTextLen == 10
MaxTruncate == 8

\* The maximum length drawPageA truncates flight_details to.
detailsMaxLength == 60

\* A text of 75 characters.
LongText ==
    "Navigation exercise with diversion, low level and confined area landings..."

TextInputs ==
    {SubSeq(LongText, 1, n) : n \in (0..MaxTextLen) \cup {59, 60, 61, Len(LongText)}}

MaxLengthInputs == (0..MaxTruncate) \cup {detailsMaxLength}

\* Date strings as the flights route stores them: any non-empty string is
\* accepted; the empty string stands for a missing date.
DateInputs ==
    {"", "2024-01-05", "2023-12-31", "2024-13-05", "2024-00-10", "2024-06",
     "2024", "garbage", "05/01/2024", "1999-9-9"}

InitText ==
    /\ customFields = <<>>
    /\ flights = <<>>
    /\ flightsIsNull = FALSE
    /\ pc = "text"
    /\ Idle
    /\ foldPos = 0
    /\ foldTotals = <<>>
    /\ fmtIn = 0
    /\ fmtOut = [done |-> FALSE, footer |-> "", cell |-> ""]
    /\ txtIn \in [dateString : DateInputs, text : TextInputs, maxLength : MaxLengthInputs]
    /\ txtOut = NoTextResult

\* this.formatDate(dateString), this.getYear(dateString),
\* this.truncateText(text, maxLength), and the cells of the Page A row of a
\* flight with this date and these details
FormatText ==
    /\ pc = "text"
    /\ ~txtOut.done
    /\ txtOut' = [done |-> TRUE,
                  date |-> formatDate(txtIn.dateString),
                  year |-> getYear(txtIn.dateString),
                  truncated |-> truncateText(txtIn.text, txtIn.maxLength),
                  row |-> pageACells([FullFlight("Single Engine", "Helicopter") EXCEPT
                                        !.date = txtIn.dateString,
                                        !.flight_details = txtIn.text])]
    /\ UNCHANGED <<customFields, flights, flightsIsNull, genVars, foldPos,
                   foldTotals, fmtIn, fmtOut, txtIn>>

NextText == FormatText

SpecText == InitText /\ [][NextText]_vars

(***************************************************************************)
(* Reference definitions for the properties.                               *)
(***************************************************************************)
\* The flight time a record carries: none when the field is missing or null.
FlightTime(flight) ==
    IF flight.flight_time_hours \in {Undefined, Null} THEN 0 ELSE flight.flight_time_hours

\* The sum of the flight time of the flights of fl, from index i on, whose
\* aircraft_category is not Simulator.
RECURSIVE NonSimulatorTime(_, _)
NonSimulatorTime(fl, i) ==
    IF i > Len(fl) THEN 0
    ELSE (IF fl[i].aircraft_category # "Simulator" THEN FlightTime(fl[i]) ELSE 0)
            + NonSimulatorTime(fl, i + 1)

\* The spread (1-based) that page p of a document of spreads belongs to.
SpreadOfPage(p) == (p + 1) \div 2

\* The flights of spread k (1-based): the k-th run of 24 consecutive flights.
FlightsOfSpread(k) ==
    [i \in 1..Min(rowsPerSpread, Len(flights) - ((k - 1) * rowsPerSpread)) |->
        flights[((k - 1) * rowsPerSpread) + i]]

\* The flights of the spreads before spread k.
FlightsBeforeSpread(k) == [i \in 1..((k - 1) * rowsPerSpread) |-> flights[i]]

Returned == pc = "done"

C2_BroughtForwardIsPreviousSpreads ==
    /\ \A p \in DOMAIN doc :
        doc[p].kind \in {"A", "B"} =>
            /\ doc[p].broughtForward =
                calculateTotals(FlightsBeforeSpread(SpreadOfPage(p)), initializeTotals)
            /\ SpreadOfPage(p) = 1 =>
                \A key \in DOMAIN doc[p].broughtForward : doc[p].broughtForward[key] = 0
    /\ (Returned /\ Len(flights) = 30) =>
            /\ Len(doc) = 4
            /\ Len(doc[1].rows) = 24 /\ Len(doc[2].rows) = 24
            /\ Len(doc[3].rows) = 6 /\ Len(doc[4].rows) = 6

C2_Witness ==
    /\ Returned
    /\ Len(flights) = 30
    /\ Len(doc) = 4
    /\ doc[3].broughtForward["instrument_ground"] > 0
    /\ doc[4].broughtForward = doc[3].broughtForward
    /\ doc[3].broughtForward # doc[1].broughtForward

AllOf(fl, engine) == \A i \in DOMAIN fl : fl[i].engine_type = engine

Unchanged(before, after, keys) == \A i \in DOMAIN keys : after[keys[i]] = before[keys[i]]

\* C3: a calculateTotals call over Single Engine flights changes none of the
\* eight multi-engine totals, one over Multi Engine flights changes none of
\* the four single-engine totals, and no single flight changes totals of
\* both groups.
C3_EngineGroupsExclusive ==
    [][LET chunk == SubSeq(flights, foldPos + 1, foldPos')
       IN  /\ AllOf(chunk, "Single Engine") =>
                Unchanged(foldTotals, foldTotals', MultiEngineKeys)
           /\ AllOf(chunk, "Multi Engine") =>
                Unchanged(foldTotals, foldTotals', SingleEngineKeys)
           /\ Len(chunk) = 1 =>
                \/ Unchanged(foldTotals, foldTotals', MultiEngineKeys)
                \/ Unchanged(foldTotals, foldTotals', SingleEngineKeys)]_vars

C3_Witness ==
    /\ pc = "fold"
    /\ foldPos = 2
    /\ flights[1].engine_type = "Single Engine"
    /\ flights[2].engine_type = "Multi Engine"
    /\ foldTotals["se_day_dual"] = 1 /\ foldTotals["se_night_pic"] = 4
    /\ foldTotals["me_day_pic"] = 20 /\ foldTotals["me_night_copilot"] = 30
    /\ foldTotals["me_day_dual"] = 0

\* C4: folding calculateTotals over any partition of the flights into ordered
\* consecutive chunks, each call taking the previous call's result, gives
\* what one calculateTotals call over the flights folded so far gives from
\* the zero totals (at the end: over all N flights).
C4_ChunkedFoldEqualsSingleCall ==
    pc = "fold" =>
        foldTotals = calculateTotals(SubSeq(flights, 1, foldPos), initializeTotals)

C4_Witness ==
    /\ pc = "fold"
    /\ Len(flights) = MaxFoldFlights
    /\ foldPos = Len(flights)
    /\ Len(customFields) = 2
    /\ foldTotals["custom_2"] > 0
    /\ foldTotals["grand_total"] > 0

\* C5: in every totals snapshot grand_total = helicopter_total +
\* aeroplane_total.
C5_GrandTotalIsHelicopterPlusAeroplane ==
    DOMAIN runningTotals # {} =>
        runningTotals["grand_total"] =
            runningTotals["helicopter_total"] + runningTotals["aeroplane_total"]

\* The number of spreads of n flights: the least t with n <= 24 * t.
IsSpreadCount(t, n) == (t - 1) * rowsPerSpread < n /\ n <= t * rowsPerSpread

\* C6: for a non-empty flight list the document is the spreads 1..total in
\* increasing order, each as Page A immediately followed by Page B, labelled
\* "{n}a of {total}" and "{n}b of {total}", with total = ceil(len/24) spreads
\* once generate has returned.
C6_SpreadsInOrder ==
    Len(flights) > 0 =>
        /\ \A p \in DOMAIN doc :
            LET n == SpreadOfPage(p)
            IN  /\ IsSpreadCount(totalSpreads, Len(flights))
                /\ n <= totalSpreads
                /\ doc[p].kind = (IF p % 2 = 1 THEN "A" ELSE "B")
                /\ doc[p].label =
                    "Page " \o ToString(n) \o (IF p % 2 = 1 THEN "a" ELSE "b")
                        \o " of " \o ToString(totalSpreads)
        /\ Returned => /\ IsSpreadCount(totalSpreads, Len(flights))
                       /\ Len(doc) = 2 * totalSpreads

C6_Witness ==
    /\ Returned
    /\ Len(flights) = 49
    /\ Len(doc) = 6
    /\ doc[5].label = "Page 3a of 3"
    /\ doc[6].label = "Page 3b of 3"

\* C7: for an empty flight list generate returns a document of exactly one
\* page carrying "No flights to export", with no Page A or Page B and no
\* totals computed.
C7_EmptyListPlaceholder ==
    Len(flights) = 0 =>
        /\ pc = "start" => ENABLED GenerateEmpty
        /\ pc \in {"start", "done"}
        /\ Returned =>
            /\ Len(doc) = 1
            /\ doc[1].text = "No flights to export"
            /\ doc[1].kind \notin {"A", "B"}
            /\ totalsCalls = 0
            /\ DOMAIN runningTotals = {}

C7_Witness ==
    /\ Returned
    /\ Len(flights) = 0
    /\ Len(doc) = 1

\* The values behind the footer texts of page p: the cumulative totals the
\* page engine computes from the spread's flights and its brought-forward
\* snapshot.
FooterValues(p) ==
    LET cumulative ==
            calculateTotals(FlightsOfSpread(SpreadOfPage(p)), doc[p].broughtForward)
    IN  IF doc[p].kind = "A"
        THEN <<cumulative["aeroplane_total"], cumulative["helicopter_total"],
               cumulative["simulator_total"], cumulative["grand_total"]>>
        ELSE totalValues(cumulative)

\* C8: every footer total of Page A and every value of the Page B totals row
\* is rendered "0.0" when the cumulative total is zero.
C8_FooterZeroIsShown ==
    \A p \in DOMAIN doc :
        doc[p].kind \in {"A", "B"} =>
            \A i \in DOMAIN doc[p].footer :
                FooterValues(p)[i] = 0 => doc[p].footer[i] = "0.0"

\* A string that is the number of tenths h written with one decimal place.
IsOneDecimal(str, h) ==
    \E d \in 0..MaxFmtHours, r \in 0..9 :
        h = (10 * d) + r /\ str = ToString(d) \o "." \o ToString(r)

C10_FixedGrid ==
    \A p \in DOMAIN doc :
        doc[p].kind \in {"A", "B"} =>
            LET fl == FlightsOfSpread(SpreadOfPage(p))
                page == doc[p]
            IN  /\ Len(page.hlines) = 25
                /\ \A i \in 1..24 : page.hlines[i] < page.hlines[i + 1]
                /\ Len(fl) \in 1..24
                /\ Len(page.rows) = Len(fl)
                /\ \A i \in DOMAIN page.rows :
                    /\ page.hlines[i] < page.rows[i].y
                    /\ page.rows[i].y < page.hlines[i + 1]
                    /\ page.rows[i].cells =
                        (IF page.kind = "A" THEN pageACells(fl[i]) ELSE pageBCells(fl[i]))

C10_Witness ==
    /\ Returned
    /\ Len(flights) = 29
    /\ Len(doc) = 4
    /\ Len(doc[1].rows) = 24 /\ Len(doc[2].rows) = 24
    /\ Len(doc[3].rows) = 5 /\ Len(doc[4].rows) = 5
    /\ Len(doc[3].hlines) = 25 /\ Len(doc[4].hlines) = 25
    /\ doc[1].rows[1].cells # doc[1].rows[2].cells

\* The ids of the selected custom fields (this.customFields).
SelectedIds == {customFields[i].id : i \in DOMAIN customFields}

\* The values an unselected custom field of a flight is varied over.
UnselectedValues == {Undefined, 77}

\* The flight with value v stored under every field id of its
\* customFieldValues that is not a selected one.
WithUnselected(flight, v) ==
    [flight EXCEPT !.customFieldValues.map =
        [id \in DOMAIN @ |-> IF id \in SelectedIds THEN @[id] ELSE v]]

VaryUnselected(fl, v) == [i \in DOMAIN fl |-> WithUnselected(fl[i], v)]

HasUnselectedValue(flight) ==
    /\ flight.customFieldValues.defined
    /\ \E id \in DOMAIN flight.customFieldValues.map :
            id \notin SelectedIds /\ flight.customFieldValues.map[id] > 0

\* C11: a flight list that differs from the given one only in the values
\* stored under unselected custom field ids gives, on every spread, the same
\* brought-forward snapshot, the same cumulative totals and the same footer
\* texts, and the same final running totals.
C11_UnselectedCustomValuesIgnored ==
    \A v \in UnselectedValues :
        /\ \A p \in DOMAIN doc :
            doc[p].kind \in {"A", "B"} =>
                LET k == SpreadOfPage(p)
                    bf == calculateTotals(VaryUnselected(FlightsBeforeSpread(k), v),
                                          initializeTotals)
                    cumulative == calculateTotals(VaryUnselected(FlightsOfSpread(k), v), bf)
                IN  /\ doc[p].broughtForward = bf
                    /\ doc[p].cumulative = cumulative
                    /\ doc[p].footer = IF doc[p].kind = "A"
                                       THEN pageAFooter(cumulative)
                                       ELSE pageBTotalsRow(cumulative)
        /\ (Returned /\ Len(flights) > 0) =>
                runningTotals = calculateTotals(VaryUnselected(flights, v), initializeTotals)

C11_Witness ==
    /\ Returned
    /\ Len(doc) >= 4
    /\ Len(customFields) = 1
    /\ \E i \in DOMAIN flights : HasUnselectedValue(flights[i])
    /\ \E i \in DOMAIN flights :
            /\ flights[i].customFieldValues.defined
            /\ customFields[1].id \notin DOMAIN flights[i].customFieldValues.map
    /\ runningTotals[customKey(customFields[1])] > 0
    /\ doc[4].footer = pageBTotalsRow(runningTotals)

\* The flights of the spreads 1..k.
FlightsThroughSpread(k) ==
    [i \in 1..Min(k * rowsPerSpread, Len(flights)) |-> flights[i]]

\* The sum of the flight time of the flights of fl, from index i on, whose
\* aircraft_category is in categories.
RECURSIVE CategoryTime(_, _, _)
CategoryTime(fl, i, categories) ==
    IF i > Len(fl) THEN 0
    ELSE (IF fl[i].aircraft_category \in categories THEN FlightTime(fl[i]) ELSE 0)
            + CategoryTime(fl, i + 1, categories)

AllSimulator(fl) == \A i \in DOMAIN fl : fl[i].aircraft_category = "Simulator"

CategoryTotalsSum(totals) ==
    totals["helicopter_total"] + totals["aeroplane_total"] + totals["simulator_total"]

\* C12 as stated: every flight's flight time is in exactly one of the three
\* category totals, so on every spread the three cumulative category totals
\* add up to the flight time of all the flights so far.
C12_EveryFlightInOneCategoryTotal ==
    \A p \in DOMAIN doc :
        doc[p].kind \in {"A", "B"} =>
            CategoryTotalsSum(doc[p].cumulative) =
                CategoryTime(FlightsThroughSpread(SpreadOfPage(p)), 1, Categories)

\* C12 amended: on every spread each cumulative category total is the flight
\* time of the flights so far of that category, so a Helicopter, Aeroplane
\* or Simulator flight is counted in exactly one of them and a flight of
\* any other category in none; and when all flights are Simulator flights,
\* grand_total is 0 on every spread while simulator_total is the flight time
\* of all the flights so far.
C12_CategoryTotalsByCategory ==
    \A p \in DOMAIN doc :
        doc[p].kind \in {"A", "B"} =>
            LET sofar == FlightsThroughSpread(SpreadOfPage(p))
                totals == doc[p].cumulative
            IN  /\ totals["helicopter_total"] = CategoryTime(sofar, 1, {"Helicopter"})
                /\ totals["aeroplane_total"] = CategoryTime(sofar, 1, {"Aeroplane"})
                /\ totals["simulator_total"] = CategoryTime(sofar, 1, {"Simulator"})
                /\ AllSimulator(flights) =>
                        /\ totals["grand_total"] = 0
                        /\ doc[p].broughtForward["grand_total"] = 0
                        /\ totals["simulator_total"] = CategoryTime(sofar, 1, Categories)

C12_Witness ==
    /\ Returned
    /\ Len(doc) = 6
    /\ AllSimulator(flights)
    /\ doc[2].cumulative["simulator_total"] > 0
    /\ doc[4].cumulative["simulator_total"] > doc[2].cumulative["simulator_total"]
    /\ doc[6].cumulative["simulator_total"] > doc[4].cumulative["simulator_total"]
    /\ doc[6].cumulative["grand_total"] = 0
    /\ doc[5].footer[4] = "0.0"

\* The spreads both of whose pages have been drawn.
DrawnSpreads == {k \in 1..(Len(doc) \div 2) : doc[2 * k].kind = "B"}

\* C13: on every spread the cumulative totals behind the Page A footer and
\* those behind the Page B totals row are the same accumulation result of
\* the same flights and the same brought-forward snapshot, and they are the
\* brought-forward totals of the next spread (the running totals after the
\* spread).
C13_BothPagesSameAccumulation ==
    /\ \A k \in DrawnSpreads :
        LET a == doc[(2 * k) - 1]
            b == doc[2 * k]
        IN  /\ a.broughtForward = b.broughtForward
            /\ [i \in DOMAIN a.rows |-> a.rows[i].y - pageADataY]
                    = [i \in DOMAIN b.rows |-> b.rows[i].y - pageBDataY]
            /\ a.cumulative = b.cumulative
            /\ a.cumulative = calculateTotals(FlightsOfSpread(k), a.broughtForward)
            /\ a.footer = pageAFooter(b.cumulative)
            /\ b.footer = pageBTotalsRow(a.cumulative)
            /\ Len(doc) > 2 * k => doc[(2 * k) + 1].broughtForward = a.cumulative
    /\ (spreadIndex >= 1 /\ pc \in {"pageA", "pageB", "accumulate", "done"}) =>
            runningTotals = doc[2 * spreadIndex].cumulative

C13_Witness ==
    /\ Returned
    /\ Len(doc) = 6
    /\ doc[3].cumulative = doc[4].cumulative
    /\ doc[3].cumulative # doc[3].broughtForward
    /\ doc[5].broughtForward = doc[4].cumulative
    /\ doc[5].broughtForward # doc[3].broughtForward
    /\ runningTotals = doc[6].cumulative
    /\ runningTotals["grand_total"] > doc[4].cumulative["grand_total"]

\* The Page B pages drawn to the end.
FullPagesB == {p \in DOMAIN doc : doc[p].kind = "B" /\ doc[p].label # ""}

\* The custom running sums a totals snapshot keeps.
CustomSums(totals) == DOMAIN totals \ FixedKeys

\* C14: whatever custom field definitions the generator is constructed
\* with, Page B has at most 18 columns (three custom ones) in its rows and
\* its totals row, and the totals keep at most three custom sums.
C14_CustomFieldsCappedAtThree ==
    \A p \in FullPagesB :
        /\ totalCols <= numFixedCols + 3
        /\ Len(doc[p].footer) <= numFixedCols + 3
        /\ \A i \in DOMAIN doc[p].rows : Len(doc[p].rows[i].cells) <= numFixedCols + 3
        /\ Cardinality(CustomSums(doc[p].cumulative)) <= 3

RecognisedCategories == {"Helicopter", "Aeroplane", "Simulator"}

\* C16 (category part): a flight whose aircraft_category is none of
\* Helicopter, Aeroplane, Simulator changes none of the category totals and
\* not grand_total, so on every spread the cumulative grand_total is the
\* flight time of the Helicopter and Aeroplane flights so far, and 0 when no
\* flight of the list has a recognised category.
C16_UnrecognisedCategoryInNoTotal ==
    \A p \in DOMAIN doc :
        doc[p].kind \in {"A", "B"} =>
            LET sofar == FlightsThroughSpread(SpreadOfPage(p))
                totals == doc[p].cumulative
            IN  /\ totals["grand_total"] =
                        CategoryTime(sofar, 1, {"Helicopter", "Aeroplane"})
                /\ (\A i \in DOMAIN flights :
                        flights[i].aircraft_category \notin RecognisedCategories) =>
                            /\ totals["helicopter_total"] = 0
                            /\ totals["aeroplane_total"] = 0
                            /\ totals["simulator_total"] = 0
                            /\ totals["grand_total"] = 0

Missing(v) == v \in {Undefined, Null}

Zeroed(v) == IF Missing(v) THEN 0 ELSE v

\* The flight with 0 written in every numeric field that is missing or
\* null, and with a customFieldValues map that has a value (0 when there was
\* none) for every selected custom field.
Normalised(flight) ==
    LET old == flight.customFieldValues
        ids == IF old.defined THEN DOMAIN old.map ELSE {}
    IN  [flight EXCEPT
            !.day_dual = Zeroed(@), !.day_pic = Zeroed(@),
            !.night_dual = Zeroed(@), !.night_pic = Zeroed(@),
            !.day_sic = Zeroed(@), !.day_cmnd_practice = Zeroed(@),
            !.night_sic = Zeroed(@), !.night_cmnd_practice = Zeroed(@),
            !.instrument_hours = Zeroed(@),
            !.simulated_instrument_hours = Zeroed(@),
            !.ground_instrument_hours = Zeroed(@),
            !.flight_time_hours = Zeroed(@),
            !.customFieldValues =
                [defined |-> TRUE,
                 map |-> [id \in ids \cup SelectedIds |->
                            IF id \in ids THEN Zeroed(old.map[id]) ELSE 0]]]

HasNoValue(flight) ==
    /\ \A f \in {"day_dual", "day_pic", "night_dual", "night_pic", "day_sic",
                  "day_cmnd_practice", "night_sic", "night_cmnd_practice",
                  "instrument_hours", "simulated_instrument_hours",
                  "ground_instrument_hours", "flight_time_hours"} :
            Missing(flight[f])
    /\ ~flight.customFieldValues.defined

\* C17: the totals calculateTotals returns are those of the same flights
\* with 0 in place of every missing or null numeric field and of every
\* absent custom value; no total is ever lowered, and flights that carry no
\* value at all (no customFieldValues map either) leave every total at 0.
C17_MissingValuesCountZero ==
    pc = "fold" =>
        /\ foldTotals =
                calculateTotals([i \in 1..foldPos |-> Normalised(flights[i])],
                                initializeTotals)
        /\ \A key \in DOMAIN foldTotals : foldTotals[key] >= 0
        /\ (\A i \in 1..foldPos : HasNoValue(flights[i])) =>
                \A key \in DOMAIN foldTotals : foldTotals[key] = 0

C17_Witness ==
    /\ pc = "fold"
    /\ foldPos = Len(flights)
    /\ foldPos >= 4
    /\ Len(customFields) = 2
    /\ \E i \in 1..foldPos : flights[i].night_pic = Null
                                /\ flights[i].engine_type = "Single Engine"
    /\ \E i \in 1..foldPos : flights[i].instrument_hours = Undefined
    /\ \E i \in 1..foldPos : customFields[2].id \notin DOMAIN flights[i].customFieldValues.map
    /\ foldTotals["se_night_pic"] > 0
    /\ foldTotals[customKey(customFields[2])] > 0

\* The sum of the numeric field of the first n flights of fl (a missing or
\* null value counting 0).
RECURSIVE FieldSum(_, _, _)
FieldSum(fl, n, field) ==
    IF n = 0 THEN 0 ELSE FieldSum(fl, n - 1, field) + Zeroed(fl[n][field])

\* C18: after any calculateTotals calls, instrument_actual,
\* instrument_simulated and instrument_ground are the sums of
\* instrument_hours, simulated_instrument_hours and ground_instrument_hours
\* over all the flights folded, whatever their engine_type and
\* aircraft_category.
C18_InstrumentAddedForEveryFlight ==
    pc = "fold" =>
        /\ foldTotals["instrument_actual"] = FieldSum(flights, foldPos, "instrument_hours")
        /\ foldTotals["instrument_simulated"] =
                FieldSum(flights, foldPos, "simulated_instrument_hours")
        /\ foldTotals["instrument_ground"] =
                FieldSum(flights, foldPos, "ground_instrument_hours")

C18_Witness ==
    /\ pc = "fold"
    /\ foldPos = Len(flights)
    /\ foldPos >= 4
    /\ flights[1].engine_type = "Turbine"
    /\ flights[1].aircraft_category = "Glider"
    /\ flights[2].engine_type = "Single Engine"
    /\ flights[2].aircraft_category = "Simulator"
    /\ flights[1].instrument_hours > 0
    /\ flights[2].ground_instrument_hours > 0
    /\ flights[2].instrument_hours = Undefined
    /\ foldTotals["instrument_actual"] =
            ((foldPos + 1) \div 2) * flights[1].instrument_hours
    /\ foldTotals["instrument_ground"] =
            (((foldPos + 1) \div 2) * flights[1].ground_instrument_hours)
                + ((foldPos \div 2) * flights[2].ground_instrument_hours)

\* The cell text shows the value v: blank for zero (or no value), otherwise
\* the hours with one decimal place.
Shows(cell, v) ==
    IF Zeroed(v) = 0 THEN cell = ""
    ELSE cell = ToString(v \div 10) \o "." \o ToString(v % 10)

\* The value a flight has for the custom field: the one stored under its
\* id, none when the flight has no map or no entry.
StoredCustomValue(flight, cf) ==
    IF flight.customFieldValues.defined /\ cf.id \in DOMAIN flight.customFieldValues.map
    THEN flight.customFieldValues.map[cf.id]
    ELSE 0

\* The row of cells cells is the Page B row of flight.
IsPageBRow(cells, flight) ==
    /\ Len(cells) = numFixedCols + Len(customFields)
    /\ flight.engine_type = "Single Engine" => \A c \in 5..12 : cells[c] = ""
    /\ flight.engine_type = "Multi Engine" => \A c \in 1..4 : cells[c] = ""
    /\ Shows(cells[13], flight.instrument_hours)
    /\ Shows(cells[14], flight.simulated_instrument_hours)
    /\ Shows(cells[15], flight.ground_instrument_hours)
    /\ \A j \in DOMAIN customFields :
            Shows(cells[numFixedCols + j], StoredCustomValue(flight, customFields[j]))

\* C19: in every data row of Page B the eight multi-engine cells are blank
\* for a Single Engine flight and the four single-engine cells are blank for
\* a Multi Engine flight, while the three instrument cells and the cell of
\* every selected custom field show the flight's values (zero blank)
\* whatever the engine type.
C19_PageBRowCells ==
    (Len(doc) > 0 /\ doc[Len(doc)].kind = "B") =>
        LET page == doc[Len(doc)]
            fl == FlightsOfSpread(SpreadOfPage(Len(doc)))
        IN  /\ Len(page.rows) = Len(fl)
            /\ \A i \in DOMAIN page.rows : IsPageBRow(page.rows[i].cells, fl[i])

C19_Witness ==
    /\ Len(doc) = 4
    /\ doc[4].kind = "B"
    /\ Len(customFields) = 2
    /\ Len(flights) >= 26
    /\ flights[25].engine_type = "Single Engine"
    /\ flights[26].engine_type = "Multi Engine"
    /\ doc[4].rows[1].cells[1] # "" /\ doc[4].rows[1].cells[5] = ""
    /\ doc[4].rows[2].cells[2] = "" /\ doc[4].rows[2].cells[6] = "2.0"
    /\ doc[4].rows[1].cells[13] = "0.9" /\ doc[4].rows[2].cells[13] = ""
    /\ doc[4].rows[2].cells[14] = "" /\ doc[4].rows[2].cells[15] = "4.0"
    /\ doc[4].rows[1].cells[16] = "1.4" /\ doc[4].rows[2].cells[16] = ""
    /\ doc[4].rows[2].cells[17] = "6.0"

Raised == pc = "raised"

\* C20: generate raises only before any page has been added (the null
\* flight list); once a page has been added it runs to its return, whatever
\* fields the flight records lack.
C20_RaisedOnlyBeforeFirstPage ==
    /\ Raised => Len(doc) = 0
    /\ (flightsIsNull /\ pc # "start") => Raised

\* The date string has a year, a month in 1..12 and a day.
IsParseableDate(dateString) ==
    LET parts == Split(dateString, "-")
    IN  /\ Len(parts) = 3
        /\ ParseInt(parts[1]) # NaN
        /\ ParseInt(parts[2]) \in 1..12
        /\ ParseInt(parts[3]) # NaN

\* C21: formatDate returns Mon-DD for a YYYY-MM-DD date and the empty string
\* for every input without a parseable year, month and day.
C21_FormatDateEmptyWhenUnparseable ==
    txtOut.done =>
        /\ txtIn.dateString = "2024-01-05" => txtOut.date = "Jan-05"
        /\ txtIn.dateString = "2023-12-31" => txtOut.date = "Dec-31"
        /\ ~IsParseableDate(txtIn.dateString) => txtOut.date = ""

\* C22: truncateText returns the text unchanged when its length is at most
\* maxLength and otherwise its first maxLength - 3 characters followed by
\* "..."; the details cell of a Page A row is the flight's details
\* truncated to 60.
C22_TruncateTextShortensWithEllipsis ==
    txtOut.done =>
        /\ IF Len(txtIn.text) <= txtIn.maxLength
           THEN txtOut.truncated = txtIn.text
           ELSE txtOut.truncated = SubSeq(txtIn.text, 1, txtIn.maxLength - 3) \o "..."
        /\ IF Len(txtIn.text) <= detailsMaxLength
           THEN txtOut.row[6] = txtIn.text
           ELSE /\ txtOut.row[6] = SubSeq(txtIn.text, 1, detailsMaxLength - 3) \o "..."
                /\ Len(txtOut.row[6]) = detailsMaxLength

C22_Witness ==
    /\ txtOut.done
    /\ Len(txtIn.text) > detailsMaxLength
    /\ txtIn.maxLength = detailsMaxLength
    /\ txtOut.truncated # txtIn.text
    /\ Len(txtOut.truncated) = detailsMaxLength
    /\ txtOut.row[6] = txtOut.truncated

\* The right margin of the page: pageWidth - marginRight.
rightMargin == [hundredths |-> pageWidth - marginRight, ulps |-> 0]

\* Position a lies to the right of position b.
Beyond(a, b) ==
    \/ a.hundredths > b.hundredths
    \/ a.hundredths = b.hundredths /\ a.ulps > b.ulps

PagesA == {p \in DOMAIN doc : doc[p].kind = "A"}

\* Sum of a sequence of widths.
RECURSIVE SumWidths(_)
SumWidths(w) == IF w = <<>> THEN 0 ELSE w[1] + SumWidths(Tail(w))

\* C24: on Page A the five fixed columns are 55, 50, 60, 95 and 95 points
\* wide and the details column is exactly the content width less their sum,
\* so the six widths sum to the content width; the seven vertical lines'
\* x positions increase strictly from the left margin to the table's right
\* edge.
C24_PageAColumnsFillContentWidth ==
    \A p \in PagesA :
        LET w == doc[p].layout.widths
            v == doc[p].layout.vlines
        IN  /\ Len(w) = 6
            /\ SubSeq(w, 1, 5) = <<5500, 5000, 6000, 9500, 9500>>
            /\ w[6] = (pageWidth - marginLeft - marginRight)
                        - (5500 + 5000 + 6000 + 9500 + 9500)
            /\ SumWidths(w) = pageWidth - marginLeft - marginRight
            /\ Len(v) = 7
            /\ v[1].x = marginLeft
            /\ v[7].x = doc[p].layout.tableEndX
            /\ v[7].x = pageWidth - marginRight
            /\ \A i \in 1..6 : v[i].x < v[i + 1].x
            /\ \A i \in 1..6 : v[i + 1].x - v[i].x = w[i]

C24_Witness ==
    /\ 1 \in PagesA
    /\ doc[1].layout.widths[6] = 38689
    /\ doc[1].layout.vlines[6].x = 40500
    /\ doc[1].layout.vlines[7].x = 79189

\* The places flights are drawn at: spread k (1-based) and row j (1-based,
\* row index j - 1) of the spreads drawn so far.
Positions ==
    UNION {{<<k, j>> : j \in 1..Len(doc[(2 * k) - 1].rows)} : k \in DrawnSpreads}

\* The input flight a place stands for when spreads are consecutive runs of
\* 24 flights.
FlightAt(pos) == ((pos[1] - 1) * rowsPerSpread) + pos[2]

\* No two input flights give the same Page A row.
DistinctRows ==
    \A i, j \in DOMAIN flights :
        i # j => pageACells(flights[i]) # pageACells(flights[j])

\* C25: each spread holds a run of consecutive flights: a spread has between
\* 1 and 24 rows, 24 unless it is the last; the row with index j of spread k
\* is input flight 24 * (k - 1) + j + 1, on Page A and on Page B; and when
\* generate has returned every input flight is drawn at exactly one place,
\* in input order.
C25_SpreadsPartitionFlights ==
    /\ \A k \in DrawnSpreads :
            LET pageA == doc[(2 * k) - 1]
                pageB == doc[2 * k]
            IN  /\ Len(pageA.rows) \in 1..24
                /\ Len(pageB.rows) = Len(pageA.rows)
                /\ k < totalSpreads => Len(pageA.rows) = 24
                /\ k <= totalSpreads
    /\ \A pos \in Positions :
            LET pageA == doc[(2 * pos[1]) - 1]
                pageB == doc[2 * pos[1]]
            IN  /\ (pos[2] - 1) \in 0..23
                /\ FlightAt(pos) \in DOMAIN flights
                /\ pageA.rows[pos[2]].cells = pageACells(flights[FlightAt(pos)])
                /\ pageB.rows[pos[2]].cells = pageBCells(flights[FlightAt(pos)])
                /\ pageA.rows[pos[2]].y = textY(pageADataY, pos[2] - 1)
                /\ pageB.rows[pos[2]].y = textY(pageBDataY, pos[2] - 1)
    /\ (Returned /\ Len(flights) > 0) =>
            /\ \A i \in DOMAIN flights :
                    Cardinality({pos \in Positions : FlightAt(pos) = i}) = 1
            /\ DistinctRows =>
                    \A i \in DOMAIN flights :
                        {pos \in Positions :
                            doc[(2 * pos[1]) - 1].rows[pos[2]].cells
                                = pageACells(flights[i])}
                          = {<<((i - 1) \div 24) + 1, ((i - 1) % 24) + 1>>}

C25_Witness ==
    /\ Returned
    /\ Len(flights) = 29
    /\ DistinctRows
    /\ DrawnSpreads = {1, 2}
    /\ Len(doc[1].rows) = 24
    /\ Len(doc[3].rows) = 5
    /\ doc[3].rows[5].cells[3] = "ZK-29"
    /\ doc[1].rows[24].cells[3] = "ZK-24"

\* The decimal numerals of 1..n, in order.
Numerals(n) == [i \in 1..n |-> ToString(i)]

\* C26: Page B draws the OTHER section header exactly when there is at
\* least one custom field, after the three fixed section headers; the row
\* of column numbers in the header and the one in the footer both number
\* the columns 1..totalColumns, totalColumns being 15 plus the number of
\* custom fields.
C26_OtherHeaderAndColumnNumbers ==
    \A p \in FullPagesB :
        LET layout == doc[p].layout
            n == 15 + Len(customFields)
        IN  /\ SubSeq(layout.sections, 1, 3)
                    = <<"SINGLE-ENGINE", "MULTI-ENGINE", "INSTRUMENT">>
            /\ Len(customFields) >= 1 => layout.sections[Len(layout.sections)] = "OTHER"
            /\ Len(customFields) = 0 =>
                    \A i \in DOMAIN layout.sections : layout.sections[i] # "OTHER"
            /\ Len(layout.sections) = (IF Len(customFields) >= 1 THEN 4 ELSE 3)
            /\ layout.headerNumbers = Numerals(n)
            /\ layout.footerNumbers = Numerals(n)

C26_Witness ==
    /\ FullPagesB # {}
    /\ Len(customFields) = 3
    /\ doc[2].layout.sections[4] = "OTHER"
    /\ Len(doc[2].layout.headerNumbers) = 18
    /\ doc[2].layout.footerNumbers[18] = "18"

\* The vertical lines of Page A all end on the last horizontal line of the
\* 24-row grid.
EndAtGridBottom(page) ==
    \A i \in DOMAIN page.layout.vlines :
        /\ page.layout.vlines[i].bottom = page.hlines[Len(page.hlines)]
        /\ page.layout.vlines[i].top < page.layout.vlines[i].bottom

\* C27 as stated: both outer edges of the table and the lines in front of
\* the PIC, co-pilot and details columns start at the header row, the
\* lines between date, type and registration start at the table's own top,
\* and every line ends at the bottom of the 24-row grid.
C27_VerticalLinesAsStated ==
    \A p \in PagesA :
        LET v == doc[p].layout.vlines
        IN  /\ \A i \in {1, 4, 5, 6, 7} : v[i].top = marginTop + 15
            /\ \A i \in {2, 3} : v[i].top = marginTop + 35 + 15
            /\ EndAtGridBottom(doc[p])

\* C27 amended: the right outer edge and the lines in front of the PIC,
\* co-pilot and details columns start at the header row; the left outer
\* edge and the lines in front of the type and registration columns start
\* at the table's own top, which lies below the header row; every line
\* ends at the bottom of the 24-row grid.
C27_VerticalLines ==
    \A p \in PagesA :
        LET v == doc[p].layout.vlines
        IN  /\ Len(v) = 7
            /\ \A i \in {4, 5, 6, 7} : v[i].top = marginTop + 15
            /\ \A i \in {1, 2, 3} : v[i].top = marginTop + 35 + 15
            /\ v[1].x = marginLeft
            /\ v[7].x = pageWidth - marginRight
            /\ EndAtGridBottom(doc[p])
            /\ Len(doc[p].hlines) = 24 + 1

C27_Witness ==
    /\ 1 \in PagesA
    /\ doc[1].layout.vlines[1].top = 90
    /\ doc[1].layout.vlines[4].top = 55
    /\ doc[1].layout.vlines[7].top = 55
    /\ doc[1].layout.vlines[7].bottom = 90 + 5 + 17 + (24 * 17) - 3

\* The first input flight of spread k (1-based).
FirstFlightOfSpread(k) == flights[((k - 1) * rowsPerSpread) + 1]

\* C28: the year in the header of a spread's Page A is the year part (the
\* text before the first "-") of the date of the first flight of that
\* spread, and the empty string when that flight has no date.
C28_YearOfSpreadsFirstFlight ==
    \A p \in PagesA :
        LET first == FirstFlightOfSpread(SpreadOfPage(p))
        IN  /\ first.date = "" => doc[p].year = ""
            /\ first.date # "" =>
                    /\ doc[p].year = SubSeq(first.date, 1, 4)
                    /\ SubSeq(first.date, 1, 5) = doc[p].year \o "-"

C28_Witness ==
    /\ Returned
    /\ Len(flights) = 49
    /\ Len(doc) = 6
    /\ flights[1].date = "2022-06-15"
    /\ flights[24].date = "2023-12-31"
    /\ doc[1].year = "2022"
    /\ doc[3].year = "2023"
    /\ doc[5].year = "2024"

\* The sum over the first n flights of fl of the value stored under the
\* custom field id (a flight without one counting 0).
RECURSIVE CustomValueSum(_, _, _)
CustomValueSum(fl, n, id) ==
    IF n = 0 THEN 0
    ELSE CustomValueSum(fl, n - 1, id) + Zeroed(StoredCustomValue(fl[n], [id |-> id]))

\* C29: when generate has folded all spreads, for every selected custom
\* field id f the running sum custom_f is the sum of customFieldValues[f]
\* over all flights, each flight counted once, whether or not the custom
\* field list names an id more than once.
C29_CustomSumCountsEachFlightOnce ==
    (Returned /\ Len(flights) > 0) =>
        \A f \in SelectedIds :
            runningTotals["custom_" \o ToString(f)] = CustomValueSum(flights, Len(flights), f)

\* C30 as stated: for every text and every maxLength >= 0 the result of
\* truncateText is at most maxLength characters long, also for maxLength
\* below 3.
C30_ResultWithinMaxLength ==
    txtOut.done => Len(txtOut.truncated) <= txtIn.maxLength

\* C30 amended: for every text and every maxLength >= 3 the result of
\* truncateText is at most maxLength characters long; for maxLength below 3
\* a text longer than maxLength gives "...", which is 3 characters long.
C30_ResultWithinMaxLengthFromThree ==
    txtOut.done =>
        /\ txtIn.maxLength >= 3 => Len(txtOut.truncated) <= txtIn.maxLength
        /\ (txtIn.maxLength < 3 /\ Len(txtIn.text) > txtIn.maxLength) =>
                /\ txtOut.truncated = "..."
                /\ Len(txtOut.truncated) > txtIn.maxLength
        /\ Len(txtIn.text) <= txtIn.maxLength => Len(txtOut.truncated) = Len(txtIn.text)

C30_Witness ==
    /\ txtOut.done
    /\ txtIn.maxLength = 3
    /\ Len(txtIn.text) = 10
    /\ txtOut.truncated = "..."
    /\ Len(txtOut.truncated) = txtIn.maxLength
====
